---- MODULE Spec2Model ----
(***************************************************************************)
(* Model of the pagination derive macros of lighter-common                 *)
(* (derives/src/pagination.rs): the expansion of #[derive(PaginationRequest)]*)
(* over a parsed DeriveInput, and the accessors of the request type it     *)
(* generates; the error types and their conversion into HTTP responses     *)
(* (src/errors); the CORS configuration and the middleware the server       *)
(* builds from it (src/config/cors.rs, src/server.rs).                      *)
(*                                                                         *)
(* Strings are TLA+ strings; a character is a string of length 1.          *)
(* Option<T> is a sequence: <<>> is None, <<x>> is Some(x).                *)
(* A u64 is a tuple of 8 bytes, least significant first.                   *)
(***************************************************************************)
EXTENDS Integers, Sequences, FiniteSets, TLC

VARIABLES
    input,            \* the DeriveInput handed to the derive macro: [data]
    generated,        \* outcome of PaginationRequest::expand, Pending before it ran
    overflow_checks,  \* whether the crate using the derive is built with overflow checks
    query,            \* Option of the query parameters of the request being handled
    request,          \* Option of the decoded request descriptor (raw fields)
    ret,              \* the last call and what it returned
    arg,              \* the string handed to capitalize
    returned,         \* Option of the value a handler returns as its response
    response,         \* Option of the HttpResponse made from it
    workers,          \* per worker thread: the descriptor it handles and where its call stands
    raised,           \* the error a handler raised, before its conversion
    http_error,       \* Option of the HttpError it was converted into
    error_reply,      \* Option of the HttpResponse error_response() made from it
    validation,       \* the ValidationError being filled
    other,            \* a second ValidationError, the argument of merge
    added,            \* the (field, message) pairs added to validation, in call order
    other_added,      \* the same for other
    cors_config,      \* the CorsConfig of the server
    validated,        \* Option of the Result of CorsConfig::validate
    middleware        \* Option of the Cors middleware Server::cors built

vars == <<input, generated, overflow_checks, query, request, ret, arg, returned, response,
          workers, raised, http_error, error_reply,
          validation, other, added, other_added,
          cors_config, validated, middleware>>

\* the parts of the state an operation leaves alone
derive_vars == <<input, generated, overflow_checks>>
response_vars == <<returned, response>>
error_vars == <<raised, http_error, error_reply>>
validation_vars == <<validation, other, added, other_added>>
cors_vars == <<cors_config, validated, middleware>>
side_vars == <<workers, error_vars, validation_vars, cors_vars>>
pagination_vars == <<derive_vars, query, request, ret, arg, response_vars>>

None == <<>>
Some(x) == <<x>>
unwrap_or(opt, dflt) == IF opt = None THEN dflt ELSE opt[1]

\* the state of the parts a specification does not exercise
ErrorIdle ==
    /\ raised = None
    /\ http_error = None
    /\ error_reply = None
ValidationIdle ==
    /\ validation = None
    /\ other = None
    /\ added = <<>>
    /\ other_added = <<>>
CorsIdle ==
    /\ cors_config = None
    /\ validated = None
    /\ middleware = None
SideIdle ==
    /\ workers = <<>>
    /\ ErrorIdle
    /\ ValidationIdle
    /\ CorsIdle

(***************************************************************************)
(* Bounds                                                                  *)
(***************************************************************************)
MaxFields == 2      \* fields per struct in the resolver specification
MaxRaw == 3         \* small raw page / limit values 0..MaxRaw
MaxLen == 4         \* length of the strings handed to capitalize
MaxCount == 2       \* total, page and pages of an envelope are 0..MaxCount
MaxData == 2        \* entities in the data of an envelope

(***************************************************************************)
(* Characters and strings                                                  *)
(***************************************************************************)
AsciiLower == "abcdefghijklmnopqrstuvwxyz"
AsciiUpper == "ABCDEFGHIJKLMNOPQRSTUVWXYZ"

CharAt(s, i) == SubSeq(s, i, i)

\* char::to_uppercase, on the ASCII letters the field names are made of
to_uppercase(c) ==
    IF \E i \in 1..Len(AsciiLower) : CharAt(AsciiLower, i) = c
    THEN CharAt(AsciiUpper, CHOOSE i \in 1..Len(AsciiLower) : CharAt(AsciiLower, i) = c)
    ELSE c

\* u8::to_ascii_lowercase as used by str::eq_ignore_ascii_case
to_ascii_lowercase(c) ==
    IF \E i \in 1..Len(AsciiUpper) : CharAt(AsciiUpper, i) = c
    THEN CharAt(AsciiLower, CHOOSE i \in 1..Len(AsciiUpper) : CharAt(AsciiUpper, i) = c)
    ELSE c

eq_ignore_ascii_case(a, b) ==
    /\ Len(a) = Len(b)
    /\ \A i \in 1..Len(a) : to_ascii_lowercase(CharAt(a, i)) = to_ascii_lowercase(CharAt(b, i))

\* str::split(sep): the pieces between separators, empty pieces included
RECURSIVE split(_, _)
split(s, sep) ==
    IF \E i \in 1..Len(s) : CharAt(s, i) = sep
    THEN LET i == CHOOSE k \in 1..Len(s) :
                      /\ CharAt(s, k) = sep
                      /\ \A j \in 1..(k - 1) : CharAt(s, j) # sep
         IN  <<SubSeq(s, 1, i - 1)>> \o split(SubSeq(s, i + 1, Len(s)), sep)
    ELSE <<s>>

\* the closure without the rest of the word chained on
capitalize_word_first_only(word) ==
    IF Len(word) = 0 THEN "" ELSE to_uppercase(CharAt(word, 1))

\* the closure mapped over the words in capitalize
capitalize_word(word) ==
    IF Len(word) = 0
    THEN ""
    ELSE to_uppercase(CharAt(word, 1)) \o SubSeq(word, 2, Len(word))

\* the words joined with the separator they were split on
RECURSIVE join_with_underscore(_)
join_with_underscore(words) ==
    IF words = <<>>
    THEN ""
    ELSE IF Tail(words) = <<>>
    THEN Head(words)
    ELSE Head(words) \o "_" \o join_with_underscore(Tail(words))

\* [String]::join("")
RECURSIVE join(_)
join(words) ==
    IF words = <<>> THEN "" ELSE Head(words) \o join(Tail(words))

capitalize(name) ==
    LET words == split(name, "_")
    IN  join([i \in 1..Len(words) |-> capitalize_word(words[i])])

(***************************************************************************)
(* The derive input: syn::DeriveInput reduced to what expand reads         *)
(***************************************************************************)
\* syn::Meta: a bare path (#[order]) or a list (#[order(default)])
MetaPath(p) == [kind |-> "Path", path |-> p, tokens |-> ""]
MetaList(p, t) == [kind |-> "List", path |-> p, tokens |-> t]
Attribute(m) == [meta |-> m]

\* syn::Meta::path: the path of the attribute itself, whatever the kind
meta_path(meta) ==
    CASE meta.kind = "Path" -> meta.path
      [] meta.kind = "List" -> meta.path

\* syn::Attribute::path
attr_path(attr) == meta_path(attr.meta)

\* syn::Path::is_ident
is_ident(path, ident) == path = ident

AttrOrder == Attribute(MetaPath("order"))
AttrOrderDefault == Attribute(MetaList("order", "default"))
AttrSerde == Attribute(MetaList("serde", "skip"))
AttrDefault == Attribute(MetaPath("default"))

\* the attribute lists a field may carry
AttrLists ==
    { <<>>, <<AttrOrder>>, <<AttrOrderDefault>>, <<AttrSerde>>,
      <<AttrDefault, AttrOrder>> }

\* the field names schemas are built from
FieldNames ==
    { "title", "published_at", "created_at", "CREATED_AT", "created__at",
      "foo_bar", "foo__bar", "__", "_2fa" }

Field(ident, attrs) == [ident |-> ident, attrs |-> attrs]

NamedFields == { Field(Some(n), a) : n \in FieldNames, a \in AttrLists }
UnnamedFields == { Field(None, a) : a \in AttrLists }

\* the fields of a struct with named fields: names are distinct
NamedFieldSeqs(max) ==
    UNION { { fs \in [1..n -> NamedFields] :
                \A i, j \in 1..n : i # j => fs[i].ident # fs[j].ident } : n \in 0..max }

\* the fields of a tuple struct
UnnamedFieldSeqs(max) == UNION { [1..n -> UnnamedFields] : n \in 1..max }

DataStruct(fields) == [kind |-> "Struct", fields |-> fields]
DataEnum == [kind |-> "Enum", fields |-> <<>>]
DataUnion == [kind |-> "Union", fields |-> <<>>]

DeriveInput(data) == [data |-> data]

DeriveInputs(max) ==
    { DeriveInput(DataStruct(fs)) : fs \in NamedFieldSeqs(max) \cup UnnamedFieldSeqs(max) }
    \cup { DeriveInput(DataEnum), DeriveInput(DataUnion) }

(***************************************************************************)
(* PaginationRequest::expand                                               *)
(***************************************************************************)
Digits == "0123456789"

\* Ident::new panics on a string that is no identifier
ident_new_ok(name) ==
    /\ Len(name) > 0
    /\ \A i \in 1..Len(Digits) : CharAt(Digits, i) # CharAt(name, 1)

\* orderable that takes any attribute for #[order]
orderable_any_attr(field) == Len(field.attrs) > 0

\* field.attrs.iter().any(|attr| attr.path().is_ident("order"))
orderable(field) ==
    \E i \in 1..Len(field.attrs) : is_ident(attr_path(field.attrs[i]), "order")

\* the closure that parses #[order(default)]
is_default(field) ==
    \E i \in 1..Len(field.attrs) :
        IF ~is_ident(attr_path(field.attrs[i]), "order")
        THEN FALSE
        ELSE is_ident(meta_path(field.attrs[i].meta), "default")

\* the CreatedAt test done case-sensitively
is_created_at_exact(name) == name = "CreatedAt"

\* whether the transformed name is the synthetic entry
is_created_at(name) == eq_ignore_ascii_case(name, "CreatedAt")

\* the loop body with the CreatedAt test after the push
visit_push_before_skip(acc, field) ==
    IF acc.panic
    THEN acc
    ELSE IF orderable(field)
    THEN IF field.ident = None
         THEN [acc EXCEPT !.panic = TRUE]
         ELSE LET name == capitalize(field.ident[1])
              IN  IF ~ident_new_ok(name)
                  THEN [acc EXCEPT !.panic = TRUE]
                  ELSE [ orderables |-> Append(acc.orderables, name),
                         default |-> IF is_default(field) /\ ~is_created_at(name)
                                     THEN Some(name)
                                     ELSE acc.default,
                         panic |-> FALSE ]
    ELSE acc

\* one iteration of the loop over data.fields
visit(acc, field) ==
    IF acc.panic
    THEN acc
    ELSE IF orderable(field)
    THEN IF field.ident = None
         THEN [acc EXCEPT !.panic = TRUE]
         ELSE LET name == capitalize(field.ident[1])
              IN  IF is_created_at(name)
                  THEN acc
                  ELSE IF ~ident_new_ok(name)
                  THEN [acc EXCEPT !.panic = TRUE]
                  ELSE [ orderables |-> Append(acc.orderables, name),
                         default |-> IF is_default(field) THEN Some(name) ELSE acc.default,
                         panic |-> FALSE ]
    ELSE acc

\* the loop run from the last field to the first
RECURSIVE visit_all_reversed(_, _)
visit_all_reversed(acc, fields) ==
    IF fields = <<>>
    THEN acc
    ELSE visit(visit_all_reversed(acc, Tail(fields)), Head(fields))

RECURSIVE visit_all(_, _)
visit_all(acc, fields) ==
    IF fields = <<>> THEN acc ELSE visit_all(visit(acc, Head(fields)), Tail(fields))

\* let mut orderables = vec![CreatedAt]; let mut default = None;
resolve_start == [orderables |-> <<"CreatedAt">>, default |-> None, panic |-> FALSE]

\* the fallback taken from the end of the vector instead of its start
resolve_default_last(acc) == unwrap_or(acc.default, acc.orderables[Len(acc.orderables)])

\* the fallback to a primary key that every entity is taken to have
resolve_default_id(acc) == unwrap_or(acc.default, "Id")

\* default.unwrap_or_else(|| orderables[0].clone()); vectors are 0-based, sequences 1-based
resolve_default(acc) == unwrap_or(acc.default, acc.orderables[1])

Pending == [status |-> "pending", orderables |-> <<>>, default |-> ""]
Panicked == [status |-> "panic", orderables |-> <<>>, default |-> ""]

expand(data) ==
    LET acc == IF data.kind = "Struct"
               THEN visit_all(resolve_start, data.fields)
               ELSE resolve_start
    IN  IF acc.panic
        THEN Panicked
        ELSE [ status |-> "ok",
               orderables |-> acc.orderables,
               default |-> resolve_default(acc) ]

(***************************************************************************)
(* u64 arithmetic on 8 bytes, least significant first                      *)
(***************************************************************************)
Bytes == 1..8

\* a constant below 2^31 as a u64
u64(n) == [i \in Bytes |-> IF i <= 4 THEN (n \div (256 ^ (i - 1))) % 256 ELSE 0]

U64Max == [i \in Bytes |-> 255]
U64Top == [i \in Bytes |-> IF i = 8 THEN 128 ELSE 0]     \* 2^63

\* a < b on the lowest n bytes
lt_low(a, b, n) ==
    \E i \in 1..n : a[i] < b[i] /\ \A j \in (i + 1)..n : a[j] = b[j]

lt(a, b) == lt_low(a, b, 8)
gt(a, b) == lt(b, a)

\* a - b modulo 2^64: byte i borrows when the bytes below it of a are less than b's
wrapping_sub(a, b) ==
    [i \in Bytes |-> (256 + a[i] - b[i] - (IF lt_low(a, b, i - 1) THEN 1 ELSE 0)) % 256]

\* column k of the long multiplication: the sum of a[i] * b[j] with i + j = k + 1
mul_column(a, b, k) ==
    LET lo == IF k > 8 THEN k - 7 ELSE 1
        hi == IF k > 8 THEN 8 ELSE k
        s[i \in (lo - 1)..hi] ==
            IF i < lo THEN 0 ELSE s[i - 1] + a[i] * b[k + 1 - i]
    IN  s[hi]

\* the 16 bytes of the exact product a * b
RECURSIVE mul_bytes(_, _, _, _)
mul_bytes(a, b, k, carry) ==
    IF k > 16
    THEN <<>>
    ELSE LET t == mul_column(a, b, k) + carry
         IN  <<t % 256>> \o mul_bytes(a, b, k + 1, t \div 256)

full_mul(a, b) == mul_bytes(a, b, 1, 0)

\* the low 8 bytes of a 16-byte product: the product modulo 2^64
low64(p) == SubSeq(p, 1, 8)

\* whether a 16-byte product exceeds u64::MAX
exceeds64(p) == \E k \in 9..16 : p[k] # 0

wrapping_mul(a, b) == low64(full_mul(a, b))

mul_overflows(a, b) == exceeds64(full_mul(a, b))

\* the outcome of a call: a returned value or a panic
Return(call, v) == [call |-> call, panic |-> FALSE, value |-> v]
Panic(call) == [call |-> call, panic |-> TRUE, value |-> None]

(***************************************************************************)
(* The generated request type and its accessors                            *)
(***************************************************************************)
Request(p, l, s, so, o) == [page |-> p, limit |-> l, search |-> s, sort |-> so, order |-> o]

DefaultPage == 1
DefaultLimit == 10
MaxLimit == 1000
U64One == u64(1)
U64DefaultPage == u64(DefaultPage)
U64DefaultLimit == u64(DefaultLimit)
U64MaxLimit == u64(MaxLimit)

\* page() with a zero-based default
page_default_zero(self) == unwrap_or(self.page, u64(0))

\* page() that lifts a page below 1 to 1
page_at_least_one(self) ==
    IF lt(unwrap_or(self.page, U64DefaultPage), U64One)
    THEN U64One
    ELSE unwrap_or(self.page, U64DefaultPage)

\* pub fn page(&self) -> u64
page(self) == unwrap_or(self.page, U64DefaultPage)

\* limit() without the clamp
limit_unclamped(self) == unwrap_or(self.limit, U64DefaultLimit)

\* pub fn limit(&self) -> u64
limit(self) ==
    LET l == unwrap_or(self.limit, U64DefaultLimit)
    IN  IF gt(l, U64MaxLimit) THEN U64MaxLimit ELSE l

\* offset() with a saturating subtraction: page 0 is taken as page 1
offset_saturating(self, checks) ==
    LET first == IF lt(page(self), U64One) THEN u64(0) ELSE wrapping_sub(page(self), U64One)
        p == full_mul(first, limit(self))
    IN  IF checks /\ exceeds64(p)
        THEN Panic("offset")
        ELSE Return("offset", low64(p))

\* pub fn offset(&self) -> u64: (self.page() - 1) * self.limit(); with overflow
\* checks an overflowing - or * panics, without them it wraps
offset(self, checks) ==
    IF checks /\ lt(page(self), U64One)
    THEN Panic("offset")
    ELSE LET p == full_mul(wrapping_sub(page(self), U64One), limit(self))
         IN  IF checks /\ exceeds64(p)
             THEN Panic("offset")
             ELSE Return("offset", low64(p))

\* search() that takes an empty string for no search
search_empty_as_none(self) == IF self.search = Some("") THEN None ELSE self.search

\* pub fn search(&self) -> Option<String>
search(self) == self.search

\* sort() with ascending as the direction of a request that names none
sort_default_asc(self) ==
    CASE unwrap_or(self.sort, "Asc") = "Asc" -> "Order::Asc"
      [] unwrap_or(self.sort, "Asc") = "Desc" -> "Order::Desc"

\* pub fn sort(&self) -> sea_orm::Order
sort(self) ==
    CASE unwrap_or(self.sort, "Desc") = "Asc" -> "Order::Asc"
      [] unwrap_or(self.sort, "Desc") = "Desc" -> "Order::Desc"

\* impl Default for the order enum
order_default(gen) == gen.default

\* order() that ignores the raw value
order_always_default(self, gen) == order_default(gen)

\* pub fn order(&self): self.order.clone().unwrap_or_default()
order(self, gen) == unwrap_or(self.order, order_default(gen))

\* the derive macro runs once over its input
Derive ==
    /\ generated.status = "pending"
    /\ generated' = expand(input.data)
    /\ UNCHANGED <<input, overflow_checks, query, request, ret, arg, response_vars, side_vars>>

NoCall == Return("none", None)

Range(seq) == { seq[i] : i \in 1..Len(seq) }

\* the raw values a decoded request may hold
RawPages == { None } \cup { Some(u64(n)) : n \in 0..MaxRaw } \cup { Some(U64Top), Some(U64Max) }
RawLimits ==
    { None } \cup { Some(u64(n)) : n \in 0..MaxRaw }
    \cup { Some(u64(n)) : n \in {20, 1000, 1001, 5000} } \cup { Some(U64Max) }
RawSearches == { None, Some(""), Some(" "), Some(" a ") }
\* the outcome of a fallible operation
Ok(v) == [ok |-> TRUE, value |-> v]
Err(e) == [ok |-> FALSE, value |-> e]

\* the variant names left as declared, as without rename_all
rename_variant_none(variant) == variant

\* serde's rename_all = "camelCase" on an enum: the variant's first character lower-cased
rename_variant(variant) ==
    IF Len(variant) = 0
    THEN variant
    ELSE to_ascii_lowercase(CharAt(variant, 1)) \o SubSeq(variant, 2, Len(variant))

\* Deserialize of a unit-variant enum from a string: the variant whose renamed
\* name is the string, or an unknown-variant error
deserialize_variant(wire, variants) ==
    IF \E i \in 1..Len(variants) : rename_variant(variants[i]) = wire
    THEN Ok(variants[CHOOSE i \in 1..Len(variants) : rename_variant(variants[i]) = wire])
    ELSE Err("unknown variant")

\* Deserialize of an Option field that takes an unknown value for a missing one
deserialize_option_lenient(wire, variants) ==
    IF wire = None
    THEN Ok(None)
    ELSE LET v == deserialize_variant(wire[1], variants)
         IN  IF v.ok THEN Ok(Some(v.value)) ELSE Ok(None)

\* Deserialize of an Option field: a missing parameter is None
deserialize_option(wire, variants) ==
    IF wire = None
    THEN Ok(None)
    ELSE LET v == deserialize_variant(wire[1], variants)
         IN  IF v.ok THEN Ok(Some(v.value)) ELSE v

SortVariants == <<"Asc", "Desc">>

\* Deserialize of the generated request struct from the query parameters
deserialize(q, gen) ==
    LET so == deserialize_option(q.sort, SortVariants)
        o == deserialize_option(q.order, gen.orderables)
    IN  IF ~so.ok THEN so
        ELSE IF ~o.ok THEN o
        ELSE Ok(Request(q.page, q.limit, q.search, so.value, o.value))

\* the sort and order parameters a client may send
WireSorts == { None, Some("asc"), Some("desc"), Some("Asc") }
WireOrders(gen) ==
    { None, Some("Nonexistent") }
    \cup { Some(rename_variant(o)) : o \in Range(gen.orderables) }
    \cup { Some(o) : o \in Range(gen.orderables) }

Query(p, l, s, so, o) == [page |-> p, limit |-> l, search |-> s, sort |-> so, order |-> o]

\* a request arrives and its query is decoded into the generated type, or
\* rejected; the raw fields of a decoded request never change after
Deserialize ==
    /\ generated.status = "ok"
    /\ query = None
    /\ \E p \in RawPages, l \in RawLimits, s \in RawSearches, so \in WireSorts,
          o \in WireOrders(generated) :
            LET q == Query(p, l, s, so, o)
                r == deserialize(q, generated)
            IN  /\ query' = Some(q)
                /\ request' = IF r.ok THEN Some(r.value) ELSE None
                /\ ret' = IF r.ok THEN NoCall ELSE Return("deserialize", r)
    /\ UNCHANGED <<derive_vars, arg, response_vars, side_vars>>

CallPage ==
    /\ request # None
    /\ ret' = Return("page", page(request[1]))
    /\ UNCHANGED <<derive_vars, query, request, arg, response_vars, side_vars>>

CallLimit ==
    /\ request # None
    /\ ret' = Return("limit", limit(request[1]))
    /\ UNCHANGED <<derive_vars, query, request, arg, response_vars, side_vars>>

CallOffset ==
    /\ request # None
    /\ ret' = offset(request[1], overflow_checks)
    /\ UNCHANGED <<derive_vars, query, request, arg, response_vars, side_vars>>

CallSearch ==
    /\ request # None
    /\ ret' = Return("search", search(request[1]))
    /\ UNCHANGED <<derive_vars, query, request, arg, response_vars, side_vars>>

CallSort ==
    /\ request # None
    /\ ret' = Return("sort", sort(request[1]))
    /\ UNCHANGED <<derive_vars, query, request, arg, response_vars, side_vars>>

CallOrder ==
    /\ request # None
    /\ ret' = Return("order", order(request[1], generated))
    /\ UNCHANGED <<derive_vars, query, request, arg, response_vars, side_vars>>

\* the handler returns and the request-scoped descriptor is dropped
Finish ==
    /\ query # None
    /\ query' = None
    /\ request' = None
    /\ ret' = NoCall
    /\ UNCHANGED <<derive_vars, arg, response_vars, side_vars>>

\* the schemas the request specification derives from
TitlePublished ==
    DeriveInput(DataStruct(<< Field(Some("title"), <<AttrOrder>>),
                              Field(Some("published_at"), <<AttrOrderDefault>>) >>))
RequestInputs ==
    { DeriveInput(DataStruct(<<>>)),
      TitlePublished,
      DeriveInput(DataStruct(<< Field(Some("created_at"), <<AttrOrder>>),
                                Field(Some("title"), <<AttrSerde>>) >>)),
      DeriveInput(DataStruct(<< Field(None, <<AttrOrder>>) >>)),
      DeriveInput(DataEnum) }

Init ==
    /\ input \in RequestInputs
    /\ generated = Pending
    /\ overflow_checks \in BOOLEAN
    /\ query = None
    /\ request = None
    /\ ret = NoCall
    /\ arg = ""
    /\ returned = None
    /\ response = None
    /\ SideIdle

Next ==
    \/ Derive
    \/ Deserialize
    \/ CallPage
    \/ CallLimit
    \/ CallOffset
    \/ CallSearch
    \/ CallSort
    \/ CallOrder
    \/ Finish

Spec == Init /\ [][Next]_vars

\* the expansion runs at compile time: the build mode of the crate has no part in it
InitExpand ==
    /\ input \in DeriveInputs(MaxFields)
    /\ generated = Pending
    /\ overflow_checks = FALSE
    /\ query = None
    /\ request = None
    /\ ret = NoCall
    /\ arg = ""
    /\ returned = None
    /\ response = None
    /\ SideIdle

NextExpand == Derive

SpecExpand == InitExpand /\ [][NextExpand]_vars

\* the characters the strings handed to capitalize are made of
Alphabet == { "a", "Z", "7", "_" }

RECURSIVE Strings(_)
Strings(n) ==
    IF n = 0
    THEN { "" }
    ELSE Strings(n - 1) \cup { s \o c : s \in { t \in Strings(n - 1) : Len(t) = n - 1 }, c \in Alphabet }

\* the inputs of tests::test_capitalize, and the strings without a word
TestInputs ==
    { "hello_world", "hello_world_", "_hello_world", "_hello_world_",
      "hello_world_hello_world", "hello_world_hello_world_",
      "_hello_world_hello_world", "_hello_world_hello_world_", "___" }

\* capitalize is called on a string
Capitalize ==
    /\ ret = NoCall
    /\ ret' = Return("capitalize", capitalize(arg))
    /\ UNCHANGED <<derive_vars, query, request, arg, response_vars, side_vars>>

InitCapitalize ==
    /\ input = DeriveInput(DataEnum)
    /\ generated = Pending
    /\ overflow_checks = FALSE
    /\ query = None
    /\ request = None
    /\ ret = NoCall
    /\ arg \in Strings(MaxLen) \cup TestInputs
    /\ returned = None
    /\ response = None
    /\ SideIdle

NextCapitalize == Capitalize

SpecCapitalize == InitCapitalize /\ [][NextCapitalize]_vars

(***************************************************************************)
(* PaginationResponse::expand: the envelope and the two Responder impls    *)
(***************************************************************************)
\* the entities of the deriving type; their Serialize impl is the deriving
\* crate's, its output is kept as a JSON value of its own
Entities == { "e1", "e2" }
entity_json(item) == [entity |-> item]

\* the generated envelope: a struct of public fields, built by struct literal.
\* total, page and pages are u64 that nothing computes with: plain numbers here
Envelope(total, pg, pages, data) == [total |-> total, page |-> pg, pages |-> pages, data |-> data]

Counts == 0..MaxCount
DataSeqs == UNION { [1..n -> Entities] : n \in 0..MaxData }

\* serde's rename_all = "camelCase" on a struct: the field name in camel case
rename_field(name) == rename_variant(capitalize(name))

\* a JSON object is the sequence of its members, each a <<key, value>>
Member(key, value) == <<key, value>>

\* the envelope's Serialize with pages worked out from total and the data
serialize_envelope_pages_computed(env) ==
    << Member(rename_field("total"), env.total),
       Member(rename_field("page"), env.page),
       Member(rename_field("pages"),
              IF Len(env.data) = 0 THEN 0
              ELSE (env.total + Len(env.data) - 1) \div Len(env.data)),
       Member(rename_field("data"), [i \in 1..Len(env.data) |-> entity_json(env.data[i])]) >>

\* the derived Serialize of the envelope: its four fields in declaration order
serialize_envelope(env) ==
    << Member(rename_field("total"), env.total),
       Member(rename_field("page"), env.page),
       Member(rename_field("pages"), env.pages),
       Member(rename_field("data"), [i \in 1..Len(env.data) |-> entity_json(env.data[i])]) >>

Responder(kind, value) == [kind |-> kind, value |-> value]

\* Serialize of what the handler returns
serialize(self) ==
    CASE self.kind = "envelope" -> serialize_envelope(self.value)
      [] self.kind = "entity" -> entity_json(self.value)

StatusOk == 200

\* HttpResponse::Ok().json(body)
HttpResponse(status, body) ==
    [status |-> status, content_type |-> "application/json", body |-> body]

\* respond_to answering 201 Created
respond_to_created(self) == HttpResponse(201, serialize(self))

\* fn respond_to(self, _: &HttpRequest): the same body in both impls
respond_to(self) == HttpResponse(StatusOk, serialize(self))

\* a handler returns an envelope built from any four values
ReturnEnvelope ==
    /\ returned = None
    /\ \E total \in Counts, pg \in Counts, pages \in Counts, data \in DataSeqs :
          returned' = Some(Responder("envelope", Envelope(total, pg, pages, data)))
    /\ UNCHANGED <<derive_vars, query, request, ret, arg, response, side_vars>>

\* a handler returns a bare entity
ReturnEntity ==
    /\ returned = None
    /\ \E item \in Entities : returned' = Some(Responder("entity", item))
    /\ UNCHANGED <<derive_vars, query, request, ret, arg, response, side_vars>>

\* the framework turns the returned value into the response
RespondTo ==
    /\ returned # None
    /\ response = None
    /\ response' = Some(respond_to(returned[1]))
    /\ UNCHANGED <<derive_vars, query, request, ret, arg, returned, side_vars>>

\* the response is written out and the request is over
Written ==
    /\ response # None
    /\ returned' = None
    /\ response' = None
    /\ UNCHANGED <<derive_vars, query, request, ret, arg, side_vars>>

InitResponse ==
    /\ input = DeriveInput(DataStruct(<<>>))
    /\ generated = Pending
    /\ overflow_checks = FALSE
    /\ query = None
    /\ request = None
    /\ ret = NoCall
    /\ arg = ""
    /\ returned = None
    /\ response = None
    /\ SideIdle

NextResponse ==
    \/ ReturnEnvelope
    \/ ReturnEntity
    \/ RespondTo
    \/ Written

SpecResponse == InitResponse /\ [][NextResponse]_vars

(***************************************************************************)
(* Accessor calls of requests handled concurrently (specification          *)
(* SpecConcurrent). Each worker thread owns the descriptor of the request  *)
(* it handles and calls the accessors through &self; offset() is taken in  *)
(* the steps of its expression (self.page() - 1) * self.limit().           *)
(***************************************************************************)
MaxWorkers == 2     \* worker threads handling requests at the same time
Workers == 1..MaxWorkers

\* a worker: where it stands, the descriptor it owns, the left operand of
\* offset()'s product once evaluated, the outcome of its last call (none while
\* a call is under way)
Worker(pc, self, p, r) == [pc |-> pc, self |-> self, p |-> p, ret |-> r]
IdleWorker == Worker("idle", None, None, NoCall)

\* the queries the concurrent requests carry
ConcurrentQueries ==
    { Query(None, None, None, None, None),
      Query(Some(u64(0)), Some(u64(MaxRaw)), Some(" a "), Some("asc"), Some("title")),
      Query(Some(U64Top), Some(u64(1001)), None, Some("desc"), Some("publishedAt")) }

\* the extractor hands the decoded descriptor to the handler
accept(q, gen) == Worker("ready", Some(deserialize(q, gen).value), None, NoCall)

\* an accessor called on &self: the worker keeps its descriptor and takes the result
returns(h, r) == [h EXCEPT !.ret = r]

\* the first operand of offset() written back into the descriptor
offset_page_in_place(h, checks) ==
    IF checks /\ lt(page(h.self[1]), U64One)
    THEN Worker("panicked", h.self, None, Panic("offset"))
    ELSE Worker("offset_limit",
                Some([h.self[1] EXCEPT !.page = Some(wrapping_sub(page(h.self[1]), U64One))]),
                Some(wrapping_sub(page(h.self[1]), U64One)), NoCall)

\* offset(), first operand: self.page() - 1
offset_page(h, checks) ==
    IF checks /\ lt(page(h.self[1]), U64One)
    THEN Worker("panicked", h.self, None, Panic("offset"))
    ELSE Worker("offset_limit", h.self, Some(wrapping_sub(page(h.self[1]), U64One)), NoCall)

\* offset(), second operand and product: ... * self.limit()
offset_limit(h, checks) ==
    LET prod == full_mul(h.p[1], limit(h.self[1]))
    IN  IF checks /\ exceeds64(prod)
        THEN Worker("panicked", h.self, None, Panic("offset"))
        ELSE Worker("ready", h.self, None, Return("offset", low64(prod)))

Accept ==
    /\ generated.status = "ok"
    /\ \E w \in Workers, q \in ConcurrentQueries :
        /\ workers[w].pc = "idle"
        /\ deserialize(q, generated).ok
        /\ workers' = [workers EXCEPT ![w] = accept(q, generated)]
    /\ UNCHANGED <<pagination_vars, error_vars, validation_vars, cors_vars>>

WorkerPage ==
    /\ \E w \in Workers :
        /\ workers[w].pc = "ready"
        /\ workers' = [workers EXCEPT
                          ![w] = returns(@, Return("page", page(workers[w].self[1])))]
    /\ UNCHANGED <<pagination_vars, error_vars, validation_vars, cors_vars>>

WorkerLimit ==
    /\ \E w \in Workers :
        /\ workers[w].pc = "ready"
        /\ workers' = [workers EXCEPT
                          ![w] = returns(@, Return("limit", limit(workers[w].self[1])))]
    /\ UNCHANGED <<pagination_vars, error_vars, validation_vars, cors_vars>>

WorkerSearch ==
    /\ \E w \in Workers :
        /\ workers[w].pc = "ready"
        /\ workers' = [workers EXCEPT
                          ![w] = returns(@, Return("search", search(workers[w].self[1])))]
    /\ UNCHANGED <<pagination_vars, error_vars, validation_vars, cors_vars>>

WorkerSort ==
    /\ \E w \in Workers :
        /\ workers[w].pc = "ready"
        /\ workers' = [workers EXCEPT
                          ![w] = returns(@, Return("sort", sort(workers[w].self[1])))]
    /\ UNCHANGED <<pagination_vars, error_vars, validation_vars, cors_vars>>

WorkerOrder ==
    /\ \E w \in Workers :
        /\ workers[w].pc = "ready"
        /\ workers' = [workers EXCEPT
                          ![w] = returns(@, Return("order", order(workers[w].self[1], generated)))]
    /\ UNCHANGED <<pagination_vars, error_vars, validation_vars, cors_vars>>

WorkerOffsetPage ==
    /\ \E w \in Workers :
        /\ workers[w].pc = "ready"
        /\ workers' = [workers EXCEPT ![w] = offset_page(@, overflow_checks)]
    /\ UNCHANGED <<pagination_vars, error_vars, validation_vars, cors_vars>>

WorkerOffsetLimit ==
    /\ \E w \in Workers :
        /\ workers[w].pc = "offset_limit"
        /\ workers' = [workers EXCEPT ![w] = offset_limit(@, overflow_checks)]
    /\ UNCHANGED <<pagination_vars, error_vars, validation_vars, cors_vars>>

\* the handler returns, or its panic unwinds: the descriptor is dropped
Drop ==
    /\ \E w \in Workers :
        /\ workers[w].pc \in {"ready", "panicked"}
        /\ workers' = [workers EXCEPT ![w] = IdleWorker]
    /\ UNCHANGED <<pagination_vars, error_vars, validation_vars, cors_vars>>

InitConcurrent ==
    /\ input = TitlePublished
    /\ generated = Pending
    /\ overflow_checks \in BOOLEAN
    /\ query = None
    /\ request = None
    /\ ret = NoCall
    /\ arg = ""
    /\ returned = None
    /\ response = None
    /\ workers = [w \in Workers |-> IdleWorker]
    /\ ErrorIdle
    /\ ValidationIdle
    /\ CorsIdle

NextConcurrent ==
    \/ Derive
    \/ Accept
    \/ WorkerPage
    \/ WorkerLimit
    \/ WorkerSearch
    \/ WorkerSort
    \/ WorkerOrder
    \/ WorkerOffsetPage
    \/ WorkerOffsetLimit
    \/ Drop

SpecConcurrent == InitConcurrent /\ [][NextConcurrent]_vars

(***************************************************************************)
(* errors/http.rs: HttpError, its status and code, its response, and the   *)
(* conversions into it (specification SpecErrors). A HashMap is a function *)
(* from its keys; tracing::error! writes to the log only.                  *)
(***************************************************************************)
\* the messages errors carry
Messages == { "", "users.email", "connection to 10.0.0.5:5432 refused" }

DatabaseVariants ==
    { "ConnectionError", "NotFound", "UniqueViolation", "ForeignKeyViolation",
      "QueryError", "TransactionError", "MigrationError", "PoolError", "Other" }
CacheVariants ==
    { "ConnectionError", "SerializationError", "DeserializationError", "Timeout",
      "RedisError", "KeyNotFound", "WriteError", "ReadError", "EvictionError", "PoolError" }

DatabaseError(variant, msg) == [type |-> "DatabaseError", variant |-> variant, msg |-> msg]
CacheError(variant, msg) == [type |-> "CacheError", variant |-> variant, msg |-> msg]

\* a variant of HttpError with a message, and the one with a map of errors
WithMessage(variant, message, source) ==
    [type |-> "HttpError", variant |-> variant, message |-> message, source |-> source]
WithErrors(errors, source) ==
    [type |-> "HttpError", variant |-> "UnprocessableEntity", errors |-> errors,
     source |-> source]

bad_request(message) == WithMessage("BadRequest", message, None)
unauthorized(message) == WithMessage("Unauthorized", message, None)
forbidden(message) == WithMessage("Forbidden", message, None)
not_found(message) == WithMessage("NotFound", message, None)
unprocessable_entity(errors) == WithErrors(errors, None)
internal_server_error(message) == WithMessage("InternalServerError", message, None)
service_unavailable(message) == WithMessage("ServiceUnavailable", message, None)
too_many_requests(message) == WithMessage("TooManyRequests", message, None)

\* status_code that answers a failed validation as a bad request
status_code_unprocessable_as_bad_request(self) ==
    CASE self.variant = "BadRequest" -> 400
      [] self.variant = "Unauthorized" -> 401
      [] self.variant = "Forbidden" -> 403
      [] self.variant = "NotFound" -> 404
      [] self.variant = "UnprocessableEntity" -> 400
      [] self.variant = "InternalServerError" -> 500
      [] self.variant = "ServiceUnavailable" -> 503
      [] self.variant = "TooManyRequests" -> 429

\* fn status_code(&self) -> StatusCode
status_code(self) ==
    CASE self.variant = "BadRequest" -> 400
      [] self.variant = "Unauthorized" -> 401
      [] self.variant = "Forbidden" -> 403
      [] self.variant = "NotFound" -> 404
      [] self.variant = "UnprocessableEntity" -> 422
      [] self.variant = "InternalServerError" -> 500
      [] self.variant = "ServiceUnavailable" -> 503
      [] self.variant = "TooManyRequests" -> 429

\* fn error_code(&self) -> &'static str
error_code(self) ==
    CASE self.variant = "BadRequest" -> "bad_request"
      [] self.variant = "Unauthorized" -> "unauthorized"
      [] self.variant = "Forbidden" -> "forbidden"
      [] self.variant = "NotFound" -> "not_found"
      [] self.variant = "UnprocessableEntity" -> "unprocessable_entity"
      [] self.variant = "InternalServerError" -> "internal_server_error"
      [] self.variant = "ServiceUnavailable" -> "service_unavailable"
      [] self.variant = "TooManyRequests" -> "too_many_requests"

\* fn error_response(&self) -> HttpResponse
error_response(self) ==
    IF self.variant = "UnprocessableEntity"
    THEN HttpResponse(status_code(self), << Member("errors", self.errors) >>)
    ELSE HttpResponse(status_code(self),
                      << Member("error", error_code(self)),
                         Member("message", self.message) >>)

\* errors.insert(key, vec![msg]) on a new HashMap
single_entry(key, msg) == [k \in {key} |-> <<msg>>]

\* the conversion that hands the database's message on to the client
from_database_verbatim(err) ==
    CASE err.variant = "NotFound" -> WithMessage("NotFound", err.msg, Some(err))
      [] err.variant = "UniqueViolation" ->
            WithErrors(single_entry("constraint", err.msg), Some(err))
      [] err.variant = "ForeignKeyViolation" ->
            WithErrors(single_entry("foreign_key", err.msg), Some(err))
      [] OTHER -> WithMessage("InternalServerError", err.msg, Some(err))

\* impl From<DatabaseError> for HttpError
from_database(err) ==
    CASE err.variant = "NotFound" -> WithMessage("NotFound", err.msg, Some(err))
      [] err.variant = "UniqueViolation" ->
            WithErrors(single_entry("constraint", err.msg), Some(err))
      [] err.variant = "ForeignKeyViolation" ->
            WithErrors(single_entry("foreign_key", err.msg), Some(err))
      [] err.variant \in { "ConnectionError", "QueryError", "TransactionError",
                           "MigrationError", "PoolError", "Other" } ->
            WithMessage("InternalServerError", "An internal error occurred", Some(err))

\* impl From<CacheError> for HttpError
from_cache(err) ==
    WithMessage("InternalServerError", "An internal error occurred", Some(err))

\* the ? operator in a handler that returns Result<_, HttpError>
into_http(err) ==
    CASE err.type = "HttpError" -> err
      [] err.type = "DatabaseError" -> from_database(err)
      [] err.type = "CacheError" -> from_cache(err)

\* the errors a handler can fail with
Raisable ==
    { DatabaseError(v, m) : v \in DatabaseVariants, m \in Messages }
    \cup { CacheError(v, m) : v \in CacheVariants, m \in Messages }
    \cup UNION { { bad_request(m), unauthorized(m), forbidden(m), not_found(m),
                   internal_server_error(m), service_unavailable(m),
                   too_many_requests(m), unprocessable_entity(single_entry("name", m)) }
                 : m \in Messages }
    \cup { unprocessable_entity(<<>>) }

\* the handler's error is converted into the HttpError it returns
Convert ==
    /\ raised # None
    /\ http_error = None
    /\ http_error' = Some(into_http(raised[1]))
    /\ UNCHANGED <<pagination_vars, workers, raised, error_reply, validation_vars, cors_vars>>

\* actix renders the returned error
ErrorResponse ==
    /\ http_error # None
    /\ error_reply = None
    /\ error_reply' = Some(error_response(http_error[1]))
    /\ UNCHANGED <<pagination_vars, workers, raised, http_error, validation_vars, cors_vars>>

InitErrors ==
    /\ input = DeriveInput(DataStruct(<<>>))
    /\ generated = Pending
    /\ overflow_checks = FALSE
    /\ query = None
    /\ request = None
    /\ ret = NoCall
    /\ arg = ""
    /\ returned = None
    /\ response = None
    /\ workers = <<>>
    /\ raised \in { Some(e) : e \in Raisable }
    /\ http_error = None
    /\ error_reply = None
    /\ ValidationIdle
    /\ CorsIdle

NextErrors ==
    \/ Convert
    \/ ErrorResponse

SpecErrors == InitErrors /\ [][NextErrors]_vars

(***************************************************************************)
(* errors/validation.rs: ValidationError (specification SpecValidation).   *)
(* errors: HashMap<String, Vec<String>> is a function from the fields that *)
(* have an entry to their messages.                                        *)
(***************************************************************************)
MaxAdds == 3        \* messages added to the two ValidationErrors together

ValidationFields == { "email", "password" }
ValidationMessages == { "required", "too short" }

\* ValidationError::new(): the errors of an empty HashMap
new == <<>>

\* self.errors.get(field) as the Vec itself, empty when there is no entry
entry_or_empty(errors, field) == IF field \in DOMAIN errors THEN errors[field] ELSE <<>>

\* add that replaces the messages of a field that has an entry
add_overwrite(self, field, message) ==
    [k \in DOMAIN self \cup {field} |-> IF k = field THEN <<message>> ELSE self[k]]

\* pub fn add: self.errors.entry(field).or_insert_with(Vec::new).push(message)
add(self, field, message) ==
    [k \in DOMAIN self \cup {field} |->
        IF k = field THEN Append(entry_or_empty(self, field), message) ELSE self[k]]

\* pub fn is_empty(&self) -> bool
is_empty(self) == DOMAIN self = {}

\* the sum of the lengths of the values of the fields in keys
RECURSIVE sum_len(_, _)
sum_len(errors, keys) ==
    IF keys = {}
    THEN 0
    ELSE LET k == CHOOSE x \in keys : TRUE
         IN  Len(errors[k]) + sum_len(errors, keys \ {k})

\* pub fn count(&self) -> usize
count(self) == sum_len(self, DOMAIN self)

\* pub fn get_field_errors(&self, field: &str) -> Option<&Vec<String>>
get_field_errors(self, field) == IF field \in DOMAIN self THEN Some(self[field]) ELSE None

\* pub fn merge: for each (field, messages) of other,
\* self.errors.entry(field).or_insert_with(Vec::new).extend(messages)
merge(self, oth) ==
    [k \in DOMAIN self \cup DOMAIN oth |->
        IF k \in DOMAIN oth THEN entry_or_empty(self, k) \o oth[k] ELSE self[k]]

\* a validator reports a message on the error it fills
Add ==
    /\ validation # None
    /\ Len(added) + Len(other_added) < MaxAdds
    /\ \E f \in ValidationFields, m \in ValidationMessages :
        /\ validation' = Some(add(validation[1], f, m))
        /\ added' = Append(added, <<f, m>>)
    /\ ret' = Return("add", None)
    /\ UNCHANGED <<derive_vars, query, request, arg, response_vars, workers, error_vars,
                   other, other_added, cors_vars>>

\* a nested validator reports a message on its own error
AddOther ==
    /\ other # None
    /\ Len(added) + Len(other_added) < MaxAdds
    /\ \E f \in ValidationFields, m \in ValidationMessages :
        /\ other' = Some(add(other[1], f, m))
        /\ other_added' = Append(other_added, <<f, m>>)
    /\ ret' = Return("add", None)
    /\ UNCHANGED <<derive_vars, query, request, arg, response_vars, workers, error_vars,
                   validation, added, cors_vars>>

\* the nested validator's error is merged (moved) into the first; the nested
\* validator starts over with a new one
Merge ==
    /\ validation # None
    /\ other # None
    /\ validation' = Some(merge(validation[1], other[1]))
    /\ added' = added \o other_added
    /\ other' = Some(new)
    /\ other_added' = <<>>
    /\ ret' = Return("merge", None)
    /\ UNCHANGED <<derive_vars, query, request, arg, response_vars, workers, error_vars,
                   cors_vars>>

InitValidation ==
    /\ input = DeriveInput(DataStruct(<<>>))
    /\ generated = Pending
    /\ overflow_checks = FALSE
    /\ query = None
    /\ request = None
    /\ ret = NoCall
    /\ arg = ""
    /\ returned = None
    /\ response = None
    /\ workers = <<>>
    /\ ErrorIdle
    /\ validation = Some(new)
    /\ other = Some(new)
    /\ added = <<>>
    /\ other_added = <<>>
    /\ CorsIdle

NextValidation ==
    \/ Add
    \/ AddOther
    \/ Merge

SpecValidation == InitValidation /\ [][NextValidation]_vars

(***************************************************************************)
(* config/cors.rs and Server::cors of server.rs (specification SpecCors).  *)
(* A Cors middleware is the record of what its builder was told; the       *)
(* builders are those of actix_cors.                                       *)
(***************************************************************************)
CorsConfig(enabled, origins, methods, headers, max_age, allow_credentials, send_wildcard) ==
    [enabled |-> enabled, origins |-> origins, methods |-> methods, headers |-> headers,
     max_age |-> max_age, allow_credentials |-> allow_credentials,
     send_wildcard |-> send_wildcard]

\* self.origins.contains(&"*".to_string())
contains(list, item) == \E i \in 1..Len(list) : list[i] = item

ValidationError(message) == [kind |-> "ValidationError", message |-> message]

\* impl Validate for CorsConfig
validate(self) ==
    IF self.enabled /\ Len(self.origins) = 0
    THEN Err(ValidationError("cors.origins cannot be empty when CORS is enabled"))
    ELSE IF self.max_age = 0
    THEN Err(ValidationError("cors.max_age must be > 0"))
    ELSE IF self.allow_credentials /\ contains(self.origins, "*")
    THEN Err(ValidationError(
             "cors.allow_credentials cannot be true when origin contains wildcard '*'"))
    ELSE IF self.enabled /\ Len(self.methods) = 0
    THEN Err(ValidationError("cors.methods cannot be empty when CORS is enabled"))
    ELSE IF self.enabled /\ Len(self.headers) = 0
    THEN Err(ValidationError("cors.headers cannot be empty when CORS is enabled"))
    ELSE Ok(None)

\* what a Cors allows of a kind (origins, methods, headers): all, or those listed
All == [all |-> TRUE, list |-> <<>>]
SomeOf(list) == [all |-> FALSE, list |-> list]

\* Cors::permissive(): all origins, methods and headers allowed, credentials
\* supported, max age one hour, no wildcard sent
permissive ==
    [allowed_origins |-> All, send_wildcard |-> FALSE, allowed_methods |-> All,
     allowed_headers |-> All, max_age |-> 3600, supports_credentials |-> TRUE]

\* pub fn cors(config: &CorsConfig) -> Cors
cors(config) ==
    IF ~config.enabled
    THEN permissive
    ELSE LET has_wildcard == contains(config.origins, "*")
         IN  [ allowed_origins |-> IF has_wildcard THEN All ELSE SomeOf(config.origins),
               send_wildcard |-> has_wildcard /\ config.send_wildcard,
               allowed_methods |-> SomeOf(config.methods),
               allowed_headers |-> SomeOf(config.headers),
               max_age |-> config.max_age,
               supports_credentials |-> config.allow_credentials /\ ~has_wildcard ]

\* the configurations a server can be given
OriginLists ==
    { <<>>, <<"*">>, <<"https://example.com">>, <<"https://example.com", "*">> }
CorsConfigs ==
    { CorsConfig(e, o, m, h, a, c, w) :
        e \in BOOLEAN, o \in OriginLists, m \in { <<>>, <<"GET">> },
        h \in { <<>>, <<"Content-Type">> }, a \in { 0, 3600 },
        c \in BOOLEAN, w \in BOOLEAN }

\* the configuration is validated
Validate ==
    /\ cors_config # None
    /\ validated = None
    /\ validated' = Some(validate(cors_config[1]))
    /\ UNCHANGED <<pagination_vars, workers, error_vars, validation_vars, cors_config,
                   middleware>>

\* the server's app factory wraps the app in Server::cors(&cors_config),
\* validated or not
BuildCors ==
    /\ cors_config # None
    /\ middleware = None
    /\ middleware' = Some(cors(cors_config[1]))
    /\ UNCHANGED <<pagination_vars, workers, error_vars, validation_vars, cors_config,
                   validated>>

InitCors ==
    /\ input = DeriveInput(DataStruct(<<>>))
    /\ generated = Pending
    /\ overflow_checks = FALSE
    /\ query = None
    /\ request = None
    /\ ret = NoCall
    /\ arg = ""
    /\ returned = None
    /\ response = None
    /\ workers = <<>>
    /\ ErrorIdle
    /\ ValidationIdle
    /\ cors_config \in { Some(c) : c \in CorsConfigs }
    /\ validated = None
    /\ middleware = None

NextCors ==
    \/ Validate
    \/ BuildCors

SpecCors == InitCors /\ [][NextCors]_vars

(***************************************************************************)
(* Vocabulary of the properties                                            *)
(***************************************************************************)
\* a u64 below 2^24 and its value as a number
IsSmall(v) == \A i \in 4..8 : v[i] = 0
Val(v) == v[1] + 256 * v[2] + 65536 * v[3]
\* v > n for a number n below 2^24
Above(v, n) == ~IsSmall(v) \/ Val(v) > n

\* the request being handled and its raw fields
HasRequest == request # None
Raw == request[1]
NoRawFields == Request(None, None, None, None, None)

\* the schema as the resolver's contract describes it
Fields == IF input.data.kind = "Struct" THEN input.data.fields ELSE <<>>
MarkedOrderable(f) == \E i \in 1..Len(f.attrs) : f.attrs[i].meta.path = "order"
MarkedDefault(f) ==
    \E i \in 1..Len(f.attrs) : f.attrs[i].meta = MetaList("order", "default")
Transformed(f) == capitalize(f.ident[1])
Resolved == generated.status = "ok"

(***************************************************************************)
(* Request accessors (specification Spec)                                  *)
(***************************************************************************)

\* C1: limit() is 1000 when the raw limit is present and above 1000, the raw
\* limit itself when it is present and at most 1000 (0 included), 10 when it
\* is absent; so limit() never exceeds 1000.
C1_LimitClamped ==
    (HasRequest /\ ret.call = "limit") =>
        /\ ~ret.panic
        /\ IsSmall(ret.value) /\ Val(ret.value) <= 1000
        /\ (Raw.limit # None /\ Above(Raw.limit[1], 1000)) => Val(ret.value) = 1000
        /\ (Raw.limit # None /\ ~Above(Raw.limit[1], 1000)) => ret.value = Raw.limit[1]
        /\ Raw.limit = None => Val(ret.value) = 10

\* C1 witness: limit() was called on a request with raw limit 5000 and gave 1000
C1_Witness ==
    /\ HasRequest /\ ret.call = "limit"
    /\ Raw.limit # None /\ IsSmall(Raw.limit[1]) /\ Val(Raw.limit[1]) = 5000
    /\ Val(ret.value) = 1000

\* C2 as claimed: whenever page() >= 1, offset() returns the exact product
\* (page() - 1) * limit(), for every u64 page and every raw limit.
C2_OffsetIsExactProduct ==
    (HasRequest /\ ret.call = "offset" /\ ~lt(page(Raw), U64One)) =>
        /\ ~ret.panic
        /\ full_mul(wrapping_sub(page(Raw), U64One), limit(Raw))
             = ret.value \o <<0, 0, 0, 0, 0, 0, 0, 0>>

\* C3 as claimed: every accessor produces a value and never fails, whatever
\* raw fields are present, page = 0 included.
C3_AccessorsTotal == ret.call # "none" => ~ret.panic

\* C4: with no raw parameter present page() is 1, limit() is 10, offset() is 0,
\* the sort direction is Desc and the order field is the resolved default.
C4_Defaults ==
    (HasRequest /\ Raw = NoRawFields /\ ret.call # "none") =>
        /\ ~ret.panic
        /\ ret.call = "page" => (IsSmall(ret.value) /\ Val(ret.value) = 1)
        /\ ret.call = "limit" => (IsSmall(ret.value) /\ Val(ret.value) = 10)
        /\ ret.call = "offset" => (IsSmall(ret.value) /\ Val(ret.value) = 0)
        /\ ret.call = "sort" => ret.value = "Order::Desc"
        /\ ret.call = "order" => ret.value = generated.default

\* C4 witness: offset() was called on a request without raw fields and gave 0
C4_Witness ==
    /\ HasRequest /\ Raw = NoRawFields
    /\ ret.call = "offset" /\ ~ret.panic /\ Val(ret.value) = 0

(***************************************************************************)
(* Orderable-field resolution (specification SpecExpand)                   *)
(***************************************************************************)

\* C5 as claimed: when exactly one orderable field carries #[order(default)]
\* and its transformed identifier is not CreatedAt, the resolved default is
\* that identifier.
C5_MarkedFieldIsDefault ==
    Resolved =>
        \A i \in 1..Len(Fields) :
            ( /\ MarkedDefault(Fields[i])
              /\ \A j \in 1..Len(Fields) : MarkedDefault(Fields[j]) => j = i
              /\ ~eq_ignore_ascii_case(Transformed(Fields[i]), "CreatedAt") )
            => generated.default = Transformed(Fields[i])

\* the schema has no field marked default, and an orderable field other than
\* created_at was appended
NoMarkButAppended ==
    /\ Resolved
    /\ \A i \in 1..Len(Fields) : ~MarkedDefault(Fields[i])
    /\ \E i \in 1..Len(Fields) :
          /\ MarkedOrderable(Fields[i])
          /\ ~eq_ignore_ascii_case(Transformed(Fields[i]), "CreatedAt")

\* C6 as claimed: with no field marked default and an orderable field besides
\* created_at, the default is the first appended field, not CreatedAt.
C6_DefaultIsFirstAppended ==
    NoMarkButAppended =>
        /\ generated.default = generated.orderables[2]
        /\ generated.default # "CreatedAt"

\* C6 amended: with no field marked default and an orderable field besides
\* created_at, the default is the synthetic CreatedAt, the first entry of the
\* resolved set, and not the first appended field.
C6_DefaultIsCreatedAt ==
    NoMarkButAppended =>
        /\ generated.default = "CreatedAt"
        /\ generated.default = generated.orderables[1]
        /\ generated.default # generated.orderables[2]

\* C6 witness: title is orderable, nothing is marked default, and the
\* expansion chose CreatedAt
C6_Witness ==
    /\ NoMarkButAppended
    /\ generated.orderables = <<"CreatedAt", "Title">>
    /\ generated.default = "CreatedAt"

\* C7: a schema with no field marked orderable resolves to exactly [CreatedAt]
\* with default CreatedAt.
C7_NoOrderableFields ==
    (generated.status # "pending" /\ \A i \in 1..Len(Fields) : ~MarkedOrderable(Fields[i])) =>
        /\ Resolved
        /\ generated.orderables = <<"CreatedAt">>
        /\ generated.default = "CreatedAt"

\* C7 witness: a struct with fields, none of them orderable, was expanded
C7_Witness ==
    /\ Resolved
    /\ Len(Fields) >= 2
    /\ \A i \in 1..Len(Fields) : ~MarkedOrderable(Fields[i])
    /\ \E i \in 1..Len(Fields) : Len(Fields[i].attrs) > 0
    /\ generated.orderables = <<"CreatedAt">>

\* C8 as claimed: no two entries of the resolved set are equal.
C8_EntriesDistinct ==
    Resolved =>
        \A i, j \in 1..Len(generated.orderables) :
            i # j => generated.orderables[i] # generated.orderables[j]

\* two distinct orderable fields transform into one identifier other than CreatedAt
Collision ==
    \E i, j \in 1..Len(Fields) :
        /\ i # j
        /\ MarkedOrderable(Fields[i]) /\ MarkedOrderable(Fields[j])
        /\ Fields[i].ident # None /\ Fields[j].ident # None
        /\ Transformed(Fields[i]) = Transformed(Fields[j])
        /\ ~eq_ignore_ascii_case(Transformed(Fields[i]), "CreatedAt")

\* C9 as claimed: a collision makes resolution fail with a schema conflict
\* and produce no orderable-field set.
C9_CollisionIsRejected ==
    (generated.status # "pending" /\ Collision) =>
        /\ generated.status = "schema_conflict"
        /\ generated.orderables = <<>>

\* C10: the resolved set begins with CreatedAt and holds exactly one entry
\* equal to CreatedAt, case ignored, whatever fields the schema declares.
C10_CreatedAtOnce ==
    Resolved =>
        /\ generated.orderables[1] = "CreatedAt"
        /\ \A i \in 2..Len(generated.orderables) :
              ~eq_ignore_ascii_case(generated.orderables[i], "CreatedAt")

\* C10 witness: CREATED_AT and created__at are both orderable and the resolved
\* set is [CreatedAt] alone
C10_Witness ==
    /\ Resolved
    /\ \E i, j \in 1..Len(Fields) :
          /\ Fields[i].ident = Some("CREATED_AT") /\ MarkedOrderable(Fields[i])
          /\ Fields[j].ident = Some("created__at") /\ MarkedOrderable(Fields[j])
    /\ generated.orderables = <<"CreatedAt">>

\* the transformed identifiers of the orderable fields of fs that are not
\* CreatedAt (case ignored), in declaration order
RECURSIVE AppendedOf(_)
AppendedOf(fs) ==
    IF fs = <<>>
    THEN <<>>
    ELSE (IF MarkedOrderable(Head(fs))
             /\ ~eq_ignore_ascii_case(Transformed(Head(fs)), "CreatedAt")
          THEN <<Transformed(Head(fs))>>
          ELSE <<>>) \o AppendedOf(Tail(fs))

\* C11: the resolved set is CreatedAt followed by the transformed identifiers
\* of exactly the orderable fields, those equal to CreatedAt (case ignored)
\* left out, in declaration order; other fields never appear.
C11_SetInDeclarationOrder ==
    Resolved => generated.orderables = <<"CreatedAt">> \o AppendedOf(Fields)

\* C11 witness: [title (orderable), published_at (orderable)] resolved to
\* [CreatedAt, Title, PublishedAt]
C11_Witness ==
    /\ Resolved
    /\ Len(Fields) = 2
    /\ Fields[1].ident = Some("title") /\ Fields[2].ident = Some("published_at")
    /\ generated.orderables = <<"CreatedAt", "Title", "PublishedAt">>

(***************************************************************************)
(* capitalize (specification SpecCapitalize)                               *)
(***************************************************************************)

\* character i of s as it appears in the result: nothing for an underscore,
\* upper-cased when it starts a segment, unchanged otherwise
PieceAt(s, i) ==
    IF CharAt(s, i) = "_" THEN ""
    ELSE IF i = 1 \/ CharAt(s, i - 1) = "_" THEN to_uppercase(CharAt(s, i))
    ELSE CharAt(s, i)

\* the pieces of characters i.. of s, put together
RECURSIVE PiecesFrom(_, _)
PiecesFrom(s, i) ==
    IF i > Len(s) THEN "" ELSE PieceAt(s, i) \o PiecesFrom(s, i + 1)

\* C12: capitalize(name) is the non-empty underscore-separated segments of
\* name put together without separator, the first character of each
\* upper-cased and the rest unchanged; a name without such a segment gives "".
C12_CapitalizeSegments ==
    ret.call = "capitalize" =>
        /\ ret.value = PiecesFrom(arg, 1)
        /\ (\A i \in 1..Len(arg) : CharAt(arg, i) = "_") => ret.value = ""

\* C12 witness: capitalize("_hello_world_") gave "HelloWorld"
C12_Witness ==
    /\ ret.call = "capitalize"
    /\ arg = "_hello_world_"
    /\ ret.value = "HelloWorld"

(***************************************************************************)
(* Decoding of the query (specification Spec)                              *)
(***************************************************************************)
\* the query of the request being handled
HasQuery == query # None
Sent == query[1]
Decoded == request # None
Rejected == request = None /\ ret.call = "deserialize" /\ ~ret.value.ok

\* an identifier with its first character lower-cased
LowerFirst(e) ==
    IF e = "" THEN "" ELSE to_ascii_lowercase(SubSeq(e, 1, 1)) \o SubSeq(e, 2, Len(e))

\* the values of the order parameter that name an entry of the resolved set
AcceptedOrders == { LowerFirst(e) : e \in Range(generated.orderables) }
AcceptedSorts == { "asc", "desc" }

\* C13: a request whose order parameter is none of the accepted values is
\* rejected by the decoding: no descriptor exists, so no accessor can answer
\* with the default order field in its place.
C13_UnknownOrderRejected ==
    (HasQuery /\ Sent.order # None /\ Sent.order[1] \notin AcceptedOrders) => Rejected

\* C13 witness: order=Nonexistent was sent against [CreatedAt, Title,
\* PublishedAt] and the decoding failed
C13_Witness ==
    /\ HasQuery /\ Sent.order = Some("Nonexistent")
    /\ generated.orderables = <<"CreatedAt", "Title", "PublishedAt">>
    /\ Rejected

\* C14 as claimed: the order values accepted are exactly the identifiers of
\* the resolved set spelled as declared, the sort values exactly asc and desc,
\* and each decodes to the matching identifier or direction.
C14_OrderSpelledAsDeclared ==
    HasQuery =>
        /\ Decoded <=>
              /\ Sent.sort = None \/ Sent.sort[1] \in AcceptedSorts
              /\ Sent.order = None \/ Sent.order[1] \in Range(generated.orderables)
        /\ Decoded => (Sent.order # None => Raw.order = Sent.order)

\* C14 amended: the order values accepted are exactly the identifiers of the
\* resolved set with their first character lower-cased (createdAt,
\* publishedAt), the sort values exactly asc and desc, and each decodes to the
\* matching identifier or direction; an absent parameter decodes to None.
C14_OrderInCamelCase ==
    HasQuery =>
        /\ Decoded <=>
              /\ Sent.sort = None \/ Sent.sort[1] \in AcceptedSorts
              /\ Sent.order = None \/ Sent.order[1] \in AcceptedOrders
        /\ Decoded =>
              /\ Sent.order = None => Raw.order = None
              /\ Sent.order # None =>
                    /\ Raw.order # None
                    /\ Raw.order[1] \in Range(generated.orderables)
                    /\ LowerFirst(Raw.order[1]) = Sent.order[1]
              /\ Sent.sort = None => Raw.sort = None
              /\ Sent.sort = Some("asc") => Raw.sort = Some("Asc")
              /\ Sent.sort = Some("desc") => Raw.sort = Some("Desc")

\* C14 witness: order=publishedAt and sort=asc were sent and decoded to
\* PublishedAt and Asc
C14_Witness ==
    /\ HasQuery /\ Sent.order = Some("publishedAt") /\ Sent.sort = Some("asc")
    /\ Decoded /\ Raw.order = Some("PublishedAt") /\ Raw.sort = Some("Asc")

(***************************************************************************)
(* The remaining accessors (specification Spec)                            *)
(***************************************************************************)

\* C15: order() returns the raw order value when it is present, whichever
\* member of the resolved set it is, and the resolved default when it is absent.
C15_OrderRawOrDefault ==
    (HasRequest /\ ret.call = "order") =>
        /\ ~ret.panic
        /\ Raw.order # None => ret.value = Raw.order[1]
        /\ Raw.order = None => ret.value = generated.default
        /\ \E i \in 1..Len(generated.orderables) : ret.value = generated.orderables[i]

\* C15 witness: order() was called on a request with raw order Title, which is
\* not the default, and gave Title
C15_Witness ==
    /\ HasRequest /\ ret.call = "order"
    /\ Raw.order = Some("Title") /\ generated.default # "Title"
    /\ ret.value = "Title"

\* C16: sort() is ascending for a raw Asc, descending for a raw Desc and
\* descending when the raw sort is absent.
C16_SortDirection ==
    (HasRequest /\ ret.call = "sort") =>
        /\ ~ret.panic
        /\ Raw.sort = Some("Asc") => ret.value = "Order::Asc"
        /\ Raw.sort = Some("Desc") => ret.value = "Order::Desc"
        /\ Raw.sort = None => ret.value = "Order::Desc"

\* C16 witness: sort() was called on a request without raw sort and gave Desc
C16_Witness ==
    /\ HasRequest /\ ret.call = "sort"
    /\ Raw.sort = None /\ ret.value = "Order::Desc"

\* C17: page() returns the raw page unchanged whenever it is present, a raw 0
\* included, and 1 when the raw page is absent.
C17_PageRawOrOne ==
    (HasRequest /\ ret.call = "page") =>
        /\ ~ret.panic
        /\ Raw.page # None => ret.value = Raw.page[1]
        /\ Raw.page = None => (IsSmall(ret.value) /\ Val(ret.value) = 1)

\* C17 witness: page() was called on a request with raw page 0 and gave 0
C17_Witness ==
    /\ HasRequest /\ ret.call = "page"
    /\ Raw.page # None /\ IsSmall(Raw.page[1]) /\ Val(Raw.page[1]) = 0
    /\ IsSmall(ret.value) /\ Val(ret.value) = 0

\* C18: search() returns the raw optional search string as decoded: absent
\* stays absent, a present string, empty or blank ones included, comes back
\* unchanged.
C18_SearchUnchanged ==
    (HasRequest /\ ret.call = "search") =>
        /\ ~ret.panic
        /\ ret.value = Raw.search
        /\ ret.value = Sent.search

\* C18 witness: search() was called on a request whose search is one blank and
\* gave that string
C18_Witness ==
    /\ HasRequest /\ ret.call = "search"
    /\ Sent.search = Some(" ") /\ ret.value = Some(" ")

(***************************************************************************)
(* Responses (specification SpecResponse)                                  *)
(***************************************************************************)
Responded == returned # None /\ response # None
Value == returned[1].value
Body == response[1].body

\* the value of member key of a JSON object
Get(obj, key) == obj[CHOOSE i \in 1..Len(obj) : obj[i][1] = key][2]

\* C19: a bare entity and an envelope both answer with status 200 and
\* themselves as the JSON body, the envelope as an object of exactly the
\* members total, page, pages and data.
C19_RespondsOkWithValue ==
    Responded =>
        /\ response[1].status = 200
        /\ returned[1].kind = "entity" => Body = entity_json(Value)
        /\ returned[1].kind = "envelope" =>
              /\ [i \in 1..Len(Body) |-> Body[i][1]] = <<"total", "page", "pages", "data">>
              /\ Len(Get(Body, "data")) = Len(Value.data)

\* C19 witness: an envelope of two entities was answered with status 200
C19_Witness ==
    /\ Responded
    /\ returned[1].kind = "envelope"
    /\ Len(Value.data) = 2
    /\ response[1].status = 200

\* C20: whatever total, page, pages and data an envelope is built from, it is
\* answered with these four values unchanged; pages is not worked out from the
\* others.
C20_EnvelopeCarriesValues ==
    (Responded /\ returned[1].kind = "envelope") =>
        /\ Get(Body, "total") = Value.total
        /\ Get(Body, "page") = Value.page
        /\ Get(Body, "pages") = Value.pages
        /\ Get(Body, "data") = [i \in 1..Len(Value.data) |-> entity_json(Value.data[i])]

\* C20 witness: an envelope with pages = 0, two entities and total = 1 was
\* answered as it is
C20_Witness ==
    /\ Responded /\ returned[1].kind = "envelope"
    /\ Value.pages = 0 /\ Len(Value.data) = 2 /\ Value.total = 1
    /\ Get(Body, "pages") = 0 /\ Get(Body, "total") = 1 /\ Len(Get(Body, "data")) = 2

(***************************************************************************)
(* Concurrent requests (specification SpecConcurrent)                      *)
(***************************************************************************)
\* worker w handles one and the same request in this state and in the next
Handling(w) == workers[w].pc # "idle" /\ workers'[w].pc # "idle"

\* what the call a worker completed last returns for its descriptor when the
\* call runs alone and in one piece
Alone(h) ==
    CASE h.ret.call = "page" -> Return("page", page(h.self[1]))
      [] h.ret.call = "limit" -> Return("limit", limit(h.self[1]))
      [] h.ret.call = "offset" -> offset(h.self[1], overflow_checks)
      [] h.ret.call = "search" -> Return("search", search(h.self[1]))
      [] h.ret.call = "sort" -> Return("sort", sort(h.self[1]))
      [] h.ret.call = "order" -> Return("order", order(h.self[1], generated))

\* C21: while a worker handles a request, no step of any worker (an accessor
\* call, or a part of one) changes the raw fields of its descriptor or the
\* resolved orderable-field set, and after every step the outcome of each
\* worker's last call is the one that call has when run alone on the worker's
\* descriptor.
C21_AccessorsIsolated ==
    [][ \A w \in Workers :
          /\ Handling(w) =>
                /\ workers'[w].self = workers[w].self
                /\ generated' = generated
          /\ workers'[w].ret.call # "none" => workers'[w].ret = Alone(workers'[w]) ]_vars

\* C21 witness: worker 1 is in the middle of offset() while worker 2, which
\* handles a different request, has completed offset()
C21_Witness ==
    /\ workers # <<>>
    /\ workers[1].pc = "offset_limit"
    /\ workers[2].pc = "ready"
    /\ workers[2].ret.call = "offset"
    /\ workers[1].self # workers[2].self

(***************************************************************************)
(* Errors and their responses (specification SpecErrors)                   *)
(***************************************************************************)
Converted == http_error # None
Answered == error_reply # None
Failure == raised[1]
HttpErr == http_error[1]
Reply == error_reply[1]

\* variant, status and code as the contract lists them
StatusAndCode ==
    { <<"BadRequest", 400, "bad_request">>,
      <<"Unauthorized", 401, "unauthorized">>,
      <<"Forbidden", 403, "forbidden">>,
      <<"NotFound", 404, "not_found">>,
      <<"UnprocessableEntity", 422, "unprocessable_entity">>,
      <<"InternalServerError", 500, "internal_server_error">>,
      <<"ServiceUnavailable", 503, "service_unavailable">>,
      <<"TooManyRequests", 429, "too_many_requests">> }

\* C22: whatever its message (or map of errors), an HttpError has the status
\* and the error code listed for its variant, and the response made from it
\* carries that status.
C22_StatusAndCodeFixed ==
    Converted =>
        \E t \in StatusAndCode :
            /\ t[1] = HttpErr.variant
            /\ status_code(HttpErr) = t[2]
            /\ error_code(HttpErr) = t[3]
            /\ Answered => Reply.status = t[2]

\* C22 witness: a TooManyRequests with the message users.email was answered
\* with status 429
C22_Witness ==
    /\ Answered
    /\ HttpErr = too_many_requests("users.email")
    /\ Reply.status = 429

InternalDatabaseVariants ==
    { "ConnectionError", "QueryError", "TransactionError", "MigrationError",
      "PoolError", "Other" }

\* the one response every internal failure is answered with
InternalReplyBody ==
    << <<"error", "internal_server_error">>, <<"message", "An internal error occurred">> >>

\* C23: a database error of an internal variant, and every cache error, becomes
\* an InternalServerError with the fixed message and is answered as 500 with a
\* body that holds nothing of the original message; NotFound becomes 404 with
\* its message; UniqueViolation and ForeignKeyViolation become 422 with the
\* message under constraint and foreign_key.
C23_InternalDetailHidden ==
    (Converted /\ Failure.type # "HttpError") =>
        CASE Failure.type = "CacheError"
               \/ Failure.variant \in InternalDatabaseVariants ->
                /\ HttpErr.variant = "InternalServerError"
                /\ HttpErr.message = "An internal error occurred"
                /\ Answered => (Reply.status = 500 /\ Reply.body = InternalReplyBody)
          [] Failure.type = "DatabaseError" /\ Failure.variant = "NotFound" ->
                /\ HttpErr.variant = "NotFound"
                /\ HttpErr.message = Failure.msg
                /\ Answered => (Reply.status = 404 /\ Get(Reply.body, "message") = Failure.msg)
          [] Failure.type = "DatabaseError" /\ Failure.variant = "UniqueViolation" ->
                /\ HttpErr.variant = "UnprocessableEntity"
                /\ HttpErr.errors = [k \in {"constraint"} |-> <<Failure.msg>>]
                /\ Answered => (Reply.status = 422
                                /\ Get(Reply.body, "errors") = HttpErr.errors)
          [] Failure.type = "DatabaseError" /\ Failure.variant = "ForeignKeyViolation" ->
                /\ HttpErr.variant = "UnprocessableEntity"
                /\ HttpErr.errors = [k \in {"foreign_key"} |-> <<Failure.msg>>]
                /\ Answered => (Reply.status = 422
                                /\ Get(Reply.body, "errors") = HttpErr.errors)

\* C23 witness: a ConnectionError naming the database host was answered with
\* the fixed 500 body
C23_Witness ==
    /\ Answered
    /\ Failure = DatabaseError("ConnectionError", "connection to 10.0.0.5:5432 refused")
    /\ Reply.status = 500
    /\ Get(Reply.body, "message") = "An internal error occurred"

(***************************************************************************)
(* ValidationError (specification SpecValidation)                          *)
(***************************************************************************)
\* the messages of field f among the (field, message) pairs of log, in order
RECURSIVE MessagesOf(_, _)
MessagesOf(log, f) ==
    IF log = <<>>
    THEN <<>>
    ELSE (IF Head(log)[1] = f THEN <<Head(log)[2]>> ELSE <<>>) \o MessagesOf(Tail(log), f)

\* errors holds exactly the messages of log, per field in their order, and
\* counts and reports emptiness accordingly
Holds(errors, log) ==
    /\ count(errors) = Len(log)
    /\ \A f \in ValidationFields : entry_or_empty(errors, f) = MessagesOf(log, f)
    /\ is_empty(errors) <=> count(errors) = 0

\* C24: from new() on, after every add and merge, count() is the number of
\* messages added so far (a merge adds the count of the error merged in), every
\* field holds its messages in the order they were added, none lost or
\* replaced, and is_empty() holds exactly when count() is 0.
C24_CountsEveryMessage ==
    [][ /\ Holds(validation[1], added)
        /\ Holds(validation'[1], added')
        /\ ret'.call = "merge" =>
              count(validation'[1]) = count(validation[1]) + count(other[1]) ]_vars

\* C24 witness: an error holding password: required was merged with one
\* holding password: too short and email: required
C24_Witness ==
    /\ validation # None
    /\ ret.call = "merge"
    /\ get_field_errors(validation[1], "password") = Some(<<"required", "too short">>)
    /\ get_field_errors(validation[1], "email") = Some(<<"required">>)
    /\ count(validation[1]) = 3

(***************************************************************************)
(* CORS (specification SpecCors)                                           *)
(***************************************************************************)
Config == cors_config[1]
Wildcard == \E i \in 1..Len(Config.origins) : Config.origins[i] = "*"

DefaultMarked ==
    { i \in 1..Len(Fields) :
        /\ MarkedDefault(Fields[i])
        /\ ~eq_ignore_ascii_case(Transformed(Fields[i]), "CreatedAt") }

\* C26 as claimed: when more than one orderable field is marked default, the
\* resolved default is the transformed identifier of the first of them in
\* declaration order, fields skipped as CreatedAt left aside.
C26_FirstMarkedIsDefault ==
    (Resolved /\ Cardinality(DefaultMarked) > 1) =>
        \E i \in DefaultMarked :
            /\ \A j \in DefaultMarked : i <= j
            /\ generated.default = Transformed(Fields[i])

\* the orderable fields whose transformed identifier is CreatedAt, case ignored
SkippedFields ==
    { i \in 1..Len(Fields) :
        /\ MarkedOrderable(Fields[i])
        /\ eq_ignore_ascii_case(Transformed(Fields[i]), "CreatedAt") }

\* the schema with the default tag of field i taken off: #[order(default)]
\* becomes #[order]
WithoutDefaultTag(i) ==
    DeriveInput(DataStruct(
        [Fields EXCEPT ![i].attrs =
            [k \in 1..Len(Fields[i].attrs) |->
                IF Fields[i].attrs[k] = AttrOrderDefault THEN AttrOrder
                ELSE Fields[i].attrs[k]]]))

\* C27: an orderable field whose transformed identifier equals CreatedAt, case
\* ignored, is not appended to the resolved set, its identifier does not become
\* the default when it is spelled otherwise than CreatedAt, and when it carries
\* a default tag the expansion is the one of the same schema with that tag
\* taken off.
C27_SkippedBeforeDefaultTag ==
    Resolved =>
        \A i \in SkippedFields :
            /\ \A k \in 2..Len(generated.orderables) :
                  generated.orderables[k] # Transformed(Fields[i])
            /\ Transformed(Fields[i]) # "CreatedAt" =>
                  generated.default # Transformed(Fields[i])
            /\ MarkedDefault(Fields[i]) => generated = expand(WithoutDefaultTag(i).data)

\* C27 witness: CREATED_AT is marked #[order(default)], title is orderable,
\* and the expansion holds CreatedAt and Title with default CreatedAt
C27_Witness ==
    /\ Resolved
    /\ \E i \in SkippedFields :
          /\ Fields[i].ident = Some("CREATED_AT")
          /\ MarkedDefault(Fields[i])
    /\ generated.orderables = <<"CreatedAt", "Title">>
    /\ generated.default = "CreatedAt"

\* 2^64 - n as a u64, for 0 < n < 2^16; 0 for n = 0
Negated(n) ==
    [i \in Bytes |->
        IF n = 0 THEN 0
        ELSE IF i = 1 THEN (65536 - n) % 256
        ELSE IF i = 2 THEN (65536 - n) \div 256
        ELSE 255]

\* C28: for a raw page of 0, where arithmetic wraps, offset() does not fail and
\* returns ((2^64 - 1) * limit()) mod 2^64, that is 2^64 - limit(): a value of
\* at least 2^63 whenever limit() is not 0, and not 0.
C28_PageZeroWraps ==
    (HasRequest /\ Raw.page = Some(u64(0)) /\ ret.call = "offset" /\ ~overflow_checks) =>
        /\ ~ret.panic
        /\ ret.value = Negated(Val(limit(Raw)))
        /\ Val(limit(Raw)) > 0 => (ret.value[8] >= 128 /\ ret.value # u64(0))

\* C28 witness: page = 0 and no limit in a build that wraps: offset() returned
\* 2^64 - 10
C28_Witness ==
    /\ HasRequest /\ Raw.page = Some(u64(0)) /\ Raw.limit = None
    /\ ~overflow_checks
    /\ ret = Return("offset", <<246, 255, 255, 255, 255, 255, 255, 255>>)

\* C29: whatever the input, a struct with any tags or an enum or union, the
\* resolved default is an entry of the resolved set, and an input that is not
\* a struct resolves to [CreatedAt].
C29_DefaultInResolvedSet ==
    /\ Resolved => \E k \in 1..Len(generated.orderables) :
                       generated.orderables[k] = generated.default
    /\ (generated.status # "pending" /\ input.data.kind # "Struct") =>
          (Resolved /\ generated.orderables = <<"CreatedAt">>)

\* C29 witness: title, marked default, and published_at resolved to three
\* entries with a default among them
C29_Witness ==
    /\ Resolved
    /\ Len(Fields) = 2
    /\ Fields[1].ident = Some("title") /\ MarkedDefault(Fields[1])
    /\ generated.orderables = <<"CreatedAt", "Title", "PublishedAt">>
    /\ generated.default \in Range(generated.orderables)

\* C30: what capitalize returns holds no underscore, and capitalize leaves it
\* as it is.
C30_CapitalizeIdempotent ==
    ret.call = "capitalize" =>
        /\ \A i \in 1..Len(ret.value) : CharAt(ret.value, i) # "_"
        /\ capitalize(ret.value) = ret.value

\* C30 witness: _a_a, with underscores and lower-case words, gave AA
C30_Witness ==
    /\ ret.call = "capitalize"
    /\ arg = "_a_a"
    /\ ret.value = "AA"

====
